---- MODULE Spec2Model ----
(***************************************************************************)
(* A model of the todo MCP server (src/src/index.ts).                      *)
(*                                                                         *)
(* State: the in-memory collection `todos`, the backing file TODOS_FILE,   *)
(* the fs.writeFile operations that have been issued and not yet settled,  *)
(* the response to the request received last (`reply`), and the tool call  *)
(* that last changed the collection, with how far it has got (`last`).     *)
(*                                                                         *)
(* A JavaScript object is modelled as the sequence of its own properties   *)
(* in the order Object.keys / Object.entries / JSON.stringify enumerate    *)
(* them.  All keys of the modelled collections are canonical decimal       *)
(* integers, which JavaScript enumerates in ascending numeric order,       *)
(* whatever the order of insertion.                                        *)
(***************************************************************************)
EXTENDS Naturals, Sequences, FiniteSets, TLC

\* Bounds of the model.
MaxTodos == 3        \* create_todo is not offered beyond this many entries
MaxNumber == 12      \* Number() recognises the numerals "0".."12"
MaxPending == 2      \* handlers that may await their write at one time

VARIABLES todos, file, inflight, reply, last

vars == <<todos, file, inflight, reply, last>>

----------------------------------------------------------------------------
\* JavaScript values and conversions

\* The value `undefined`: an omitted argument, a missing property.
Undefined == "<undefined>"

Digit == <<"0", "1", "2", "3", "4", "5", "6", "7", "8", "9">>

\* Number.prototype.toString for a non-negative integer.
RECURSIVE ToDecimal(_)
ToDecimal(n) ==
    IF n < 10 THEN Digit[n + 1]
    ELSE ToDecimal(n \div 10) \o Digit[(n % 10) + 1]

\* NaN, as a number outside the numerals the model recognises.
NaN == MaxNumber + 1

\* String(v) for a number.
NumberToString(n) == IF n = NaN THEN "NaN" ELSE ToDecimal(n)

\* Number(s) for a string: the integer a canonical numeral denotes, else NaN.
Numerals == {ToDecimal(n) : n \in 0..MaxNumber}

ValueOf == [s \in Numerals |-> CHOOSE n \in 0..MaxNumber : ToDecimal(n) = s]

Number(s) == IF s \in Numerals THEN ValueOf[s] ELSE NaN

\* n + 1 on numbers (NaN + 1 is NaN).
PlusOne(n) == IF n = NaN THEN NaN ELSE n + 1

\* String(v) for a string or undefined; also `${v}` in a template literal.
String(v) == IF v = Undefined THEN "undefined" ELSE v

\* A boolean argument as the request carries it: given or omitted.
BoolArgs == {[given |-> TRUE, value |-> TRUE],
             [given |-> TRUE, value |-> FALSE],
             [given |-> FALSE, value |-> FALSE]}

\* Boolean(v) for a boolean or undefined.
Boolean(a) == a.given /\ a.value

\* A boolean as JSON text.
JsonBool(b) == IF b THEN "true" ELSE "false"

----------------------------------------------------------------------------
\* Objects: sequences of [key, todo] in own-property enumeration order

Keys(obj) == [i \in 1..Len(obj) |-> obj[i].key]

KeySet(obj) == {obj[i].key : i \in 1..Len(obj)}

HasOwn(obj, k) == k \in KeySet(obj)

IndexOf(obj, k) == CHOOSE i \in 1..Len(obj) : obj[i].key = k

\* Methods every object inherits from Object.prototype (todos is a plain
\* object: the result of JSON.parse, or an object literal).
ObjectPrototypeKeys ==
    {"constructor", "toString", "valueOf", "hasOwnProperty"}

\* What obj[k] evaluates to: an own property, an inherited one, or undefined.
Get(obj, k) ==
    IF HasOwn(obj, k) THEN [kind |-> "own", at |-> IndexOf(obj, k)]
    ELSE IF k \in ObjectPrototypeKeys THEN [kind |-> "inherited", at |-> 0]
    ELSE [kind |-> "undefined", at |-> 0]

\* !obj[k]
Falsy(obj, k) == Get(obj, k).kind = "undefined"

\* obj[k] = v: an existing key keeps its place, a new integer key is placed
\* in ascending numeric order.
Put(obj, k, v) ==
    IF HasOwn(obj, k)
    THEN [obj EXCEPT ![IndexOf(obj, k)].todo = v]
    ELSE LET before == SelectSeq(obj, LAMBDA e : Number(e.key) < Number(k))
             after == SelectSeq(obj, LAMBDA e : Number(e.key) > Number(k))
         IN before \o <<[key |-> k, todo |-> v]>> \o after

\* delete obj[k]: removes an own property, does nothing otherwise.
Delete(obj, k) == SelectSeq(obj, LAMBDA e : e.key # k)

----------------------------------------------------------------------------
\* The backing file and JSON

Absent == [kind |-> "absent", members |-> <<>>]
Garbage == [kind |-> "garbage", members |-> <<>>]

\* JSON.stringify(obj): the members in enumeration order.
Stringify(obj) == [kind |-> "json", members |-> obj]

\* JSON.parse builds the object member by member, in the order of the text.
RECURSIVE ParseMembers(_, _)
ParseMembers(ms, obj) ==
    IF ms = <<>> THEN obj
    ELSE ParseMembers(Tail(ms), Put(obj, Head(ms).key, Head(ms).todo))

\* fs.readFile followed by JSON.parse throws on a missing file and on text
\* that is not JSON.
Readable(f) == f.kind = "json"

Parse(f) == ParseMembers(f.members, <<>>)

----------------------------------------------------------------------------
\* Inputs

\* The title and content arguments a caller may send: text, the empty
\* string, or nothing at all.  Of the calls that omit an argument the model
\* keeps the one that omits both and those whose other argument is empty;
\* a call that omits one and gives text for the other takes the same path
\* through create_todo as the one that omits both.
TitleArgs == {"a", "", Undefined}
ContentArgs == {"x", "", Undefined}

CreateArgs ==
    {a \in [title : TitleArgs, content : ContentArgs] :
        \/ (a.title = Undefined) = (a.content = Undefined)
        \/ a.title = ""
        \/ a.content = ""}

\* The identifiers a caller may name: numerals, the name of a method every
\* object inherits, or nothing at all.
RequestIds ==
    {ToDecimal(n) : n \in 1..(MaxTodos + 1)} \cup {"toString", Undefined}

UriOf(id) == "todo:///" \o id

RequestUris == {UriOf(String(id)) : id \in RequestIds} \cup {"not a uri"}

\* The files the process may find at startup: none, one that is not JSON,
\* a JSON object whose members are todos keyed by numerals, in any textual
\* order, or a JSON object with a member that is no todo: one whose title
\* is empty, one that has no title at all.
FileKeys == {"1", "2"}

FileTodos == [title : {"a"}, content : {"x"}, done : BOOLEAN]

FileMembers == [key : FileKeys, todo : FileTodos]

DistinctKeys(ms) ==
    \A i, j \in 1..Len(ms) : i # j => ms[i].key # ms[j].key

EmptyTitle == [title |-> "", content |-> "x", done |-> FALSE]

NoTitle == [title |-> Undefined, content |-> "x", done |-> FALSE]

InitFiles ==
    {Absent, Garbage}
        \cup {Stringify(ms) : ms \in
                {m \in UNION {[1..n -> FileMembers] : n \in 0..Cardinality(FileKeys)} :
                    DistinctKeys(m)}}
        \cup {Stringify(<<[key |-> "1", todo |-> t]>>) : t \in {EmptyTitle, NoTitle}}

----------------------------------------------------------------------------
\* Responses and pending writes

\* reply.state is "none" before the first request, "awaiting" while the
\* handler of the last request awaits its write, "result" or "error" after.
NoReply == [op |-> "none", state |-> "none", text |-> "", contents |-> <<>>]

Pending(op) == [op |-> op, state |-> "awaiting", text |-> "", contents |-> <<>>]

Result(op, text) == [op |-> op, state |-> "result", text |-> text, contents |-> <<>>]

\* throw new Error(text): the transport answers with an error response.
Error(op, text) == [op |-> op, state |-> "error", text |-> text, contents |-> <<>>]

Throw(op, text) ==
    /\ reply' = Error(op, text)
    /\ UNCHANGED <<todos, file, inflight, last>>

\* A write some later write was issued alongside.
Overlapped(ws) == [i \in 1..Len(ws) |-> [ws[i] EXCEPT !.overlap = TRUE, !.newest = FALSE]]

\* fs.writeFile(TODOS_FILE, data), issued and not yet settled.
WriteFile(by, data, text, newest) ==
    inflight' = Append(Overlapped(inflight),
                       [by |-> by, data |-> data, text |-> text,
                        overlap |-> inflight # <<>>, newest |-> newest])

\* saveTodos(), called by a tool handler once it has updated the
\* collection to `next`; the handler answers `text` when the write settles.
saveTodos(op, next, text) ==
    /\ WriteFile(op, Stringify(next), text, TRUE)
    /\ last' = [op |-> op, status |-> "awaiting"]
    /\ reply' = Pending(op)
    /\ UNCHANGED file

Awaiting == Len(SelectSeq(inflight, LAMBDA w : w.by # "loadTodos"))

----------------------------------------------------------------------------
\* Startup

\* loadTodos(), and the assignment of its result to todos.  The write in the
\* catch branch is not awaited.
loadTodos(f) ==
    /\ file = f
    /\ IF Readable(f)
       THEN /\ todos = Parse(f)
            /\ inflight = <<>>
       ELSE /\ todos = <<>>
            /\ inflight = <<[by |-> "loadTodos", data |-> Stringify(<<>>),
                            text |-> "", overlap |-> FALSE, newest |-> FALSE]>>

Init ==
    /\ \E f \in InitFiles : loadTodos(f)
    /\ reply = NoReply
    /\ last = [op |-> "none", status |-> "none"]

----------------------------------------------------------------------------
\* Request handlers

\* NextId by the number of entries, as the in-memory server this one grew
\* from computes it (String(Object.keys(todos).length + 1)).
NextIdByCount(obj) == NumberToString(Len(obj) + 1)

\* The identifier create_todo assigns: one more than the last key.
NextId(obj) ==
    LET id_list == Keys(obj)
    IN IF Len(id_list) = 0 THEN "1"
       ELSE NumberToString(PlusOne(Number(id_list[Len(id_list)])))

\* todos[id] = { title, content, done: false }
Insert(obj, id, title, content) ==
    Put(obj, id, [title |-> title, content |-> content, done |-> FALSE])

\* Required without the check of the content.
RequiredTitleOnly(title, content) == title = ""

\* !title || !content
Required(title, content) == title = "" \/ content = ""

create_todo(titleArg, contentArg) ==
    LET title == String(titleArg)
        content == String(contentArg)
    IN IF Required(title, content)
       THEN Throw("create_todo", "Title and content are required")
       ELSE LET id == NextId(todos)
                next == Insert(todos, id, title, content)
            IN /\ Len(todos) < MaxTodos
               /\ todos' = next
               /\ saveTodos("create_todo", next,
                            "Created todo " \o id \o ": " \o title)

\* SetDone reaching every entry instead of the one named.
SetEveryDone(obj, id, done) ==
    [i \in 1..Len(obj) |-> [obj[i] EXCEPT !.todo.done = done]]

\* todos[id].done = done.  When todos[id] is an inherited method the
\* property lands on that function and the collection is as it was.
SetDone(obj, id, done) ==
    IF HasOwn(obj, id)
    THEN [obj EXCEPT ![IndexOf(obj, id)].todo.done = done]
    ELSE obj

\* `Marked todo ${id} as ${done ? 'done' : 'not done'}`
Marked(id, done) ==
    "Marked todo " \o id \o " as " \o (IF done THEN "done" ELSE "not done")

mark_todo_done(idArg, doneArg) ==
    LET id == String(idArg)
        done == Boolean(doneArg)
    IN IF Falsy(todos, id)
       THEN Throw("mark_todo_done", "Todo " \o id \o " not found")
       ELSE LET next == SetDone(todos, id, done)
            IN /\ todos' = next
               /\ saveTodos("mark_todo_done", next, Marked(id, done))

\* ReindexFrom giving entry number index the key index.toString().
RECURSIVE ReindexFromZero(_, _, _)
ReindexFromZero(todoEntries, index, newTodos) ==
    IF index >= Len(todoEntries) THEN newTodos
    ELSE ReindexFromZero(todoEntries, index + 1,
                         Put(newTodos, NumberToString(index),
                             todoEntries[index + 1].todo))

\* The forEach of delete_todo: entry number index (from 0) gets the key
\* (index + 1).toString() in a fresh object.
RECURSIVE ReindexFrom(_, _, _)
ReindexFrom(todoEntries, index, newTodos) ==
    IF index >= Len(todoEntries) THEN newTodos
    ELSE ReindexFrom(todoEntries, index + 1,
                     Put(newTodos, NumberToString(index + 1),
                         todoEntries[index + 1].todo))

\* Reindex left out: the entries keep their keys.
ReindexNever(todoEntries) == todoEntries

Reindex(todoEntries) == ReindexFrom(todoEntries, 0, <<>>)

delete_todo(idArg) ==
    LET id == String(idArg)
    IN IF Falsy(todos, id)
       THEN Throw("delete_todo", "Todo " \o id \o " not found")
       ELSE LET next == Reindex(Delete(todos, id))
            IN /\ todos' = next
               /\ saveTodos("delete_todo", next,
                            "Deleted todo " \o id \o " and reindexed remaining todos")

\* new URL(uri) throws on text that is no URL.
ValidUris == {UriOf(String(id)) : id \in RequestIds}

ValidUri(uri) == uri \in ValidUris

\* new URL(uri).pathname.replace(/^\//, '')
PathIds ==
    [uri \in ValidUris |-> String(CHOOSE id \in RequestIds : uri = UriOf(String(id)))]

PathId(uri) == PathIds[uri]

\* ContentBlock with the title for its text.
ContentBlockOfTitle(uri, obj, id) ==
    IF HasOwn(obj, id)
    THEN [uri |-> uri, mimeType |-> "text/plain",
          text |-> obj[IndexOf(obj, id)].todo.title,
          done |-> JsonBool(obj[IndexOf(obj, id)].todo.done)]
    ELSE [uri |-> uri, mimeType |-> "text/plain",
          text |-> Undefined, done |-> Undefined]

\* The content block of a todo; of an inherited method, which has neither
\* a content nor a done property.
ContentBlock(uri, obj, id) ==
    IF HasOwn(obj, id)
    THEN [uri |-> uri, mimeType |-> "text/plain",
          text |-> obj[IndexOf(obj, id)].todo.content,
          done |-> JsonBool(obj[IndexOf(obj, id)].todo.done)]
    ELSE [uri |-> uri, mimeType |-> "text/plain",
          text |-> Undefined, done |-> Undefined]

\* What the ReadResource handler answers when the collection is obj.
ReadResourceResponse(obj, uri) ==
    IF ~ValidUri(uri)
    THEN Error("ReadResource", "Invalid URL")
    ELSE LET id == PathId(uri)
         IN IF Falsy(obj, id)
            THEN Error("ReadResource", "Note " \o id \o " not found")
            ELSE [op |-> "ReadResource", state |-> "result", text |-> "",
                  contents |-> <<ContentBlock(uri, obj, id)>>]

ReadResource(uri) ==
    /\ reply' = ReadResourceResponse(todos, uri)
    /\ UNCHANGED <<todos, file, inflight, last>>

\* One resource descriptor of ListResources.
Descriptor(e) ==
    [uri |-> UriOf(e.key), mimeType |-> "text/plain",
     name |-> e.todo.title,
     description |-> "A text todo: " \o String(e.todo.title),
     done |-> JsonBool(e.todo.done)]

\* What the ListResources handler answers when the collection is obj.
ListResourcesResponse(obj) ==
    [op |-> "ListResources", state |-> "result", text |-> "",
     contents |-> [i \in 1..Len(obj) |-> Descriptor(obj[i])]]

\* ListResources persisting the collection as the tool handlers do.
ListResourcesAndSave ==
    /\ UNCHANGED todos
    /\ saveTodos("ListResources", todos, "")

ListResources ==
    /\ reply' = ListResourcesResponse(todos)
    /\ UNCHANGED <<todos, file, inflight, last>>

\* LineOf with the flag read the wrong way round.
LineOfInverted(e) ==
    e.key \o ": " \o String(e.todo.title) \o " - "
        \o (IF e.todo.done THEN "Not Done" ELSE "Done") \o "\n"

\* `${id}: ${todo.title} - ${todo.done ? 'Done' : 'Not Done'}\n`
LineOf(e) ==
    e.key \o ": " \o String(e.todo.title) \o " - "
        \o (IF e.todo.done THEN "Done" ELSE "Not Done") \o "\n"

\* result after the entries from number i on have been appended to it.
RECURSIVE AppendLines(_, _, _)
AppendLines(obj, i, result) ==
    IF i > Len(obj) THEN result
    ELSE AppendLines(obj, i + 1, result \o LineOf(obj[i]))

\* What get_all_todos answers when the collection is obj.
GetAllTodosResponse(obj) ==
    LET result == AppendLines(obj, 1, "")
    IN Result("get_all_todos",
              IF result # "" THEN result ELSE "No todos available")

get_all_todos ==
    /\ reply' = GetAllTodosResponse(todos)
    /\ UNCHANGED <<todos, file, inflight, last>>

\* The names a caller may ask a prompt by.
PromptNames == {"summarize_todos", "other"}

LeadingInstruction ==
    [role |-> "user",
     content |-> [type |-> "text",
                  text |-> "Please summarize the following todos:"]]

TrailingInstruction ==
    [role |-> "user",
     content |-> [type |-> "text",
                  text |-> "Provide a concise summary of all the todos above."]]

\* EmbeddedNotes without the last entry.
EmbeddedNotesButLast(obj) ==
    [i \in 1..(IF obj = <<>> THEN 0 ELSE Len(obj) - 1) |->
        [role |-> "user",
         content |-> [type |-> "resource",
                      resource |-> ContentBlock(UriOf(obj[i].key), obj, obj[i].key)]]]

\* The messages that embed the todos, one for each, in enumeration order.
EmbeddedNotes(obj) ==
    [i \in 1..Len(obj) |->
        [role |-> "user",
         content |-> [type |-> "resource",
                      resource |-> ContentBlock(UriOf(obj[i].key), obj, obj[i].key)]]]

\* What the GetPrompt handler answers when the collection is obj.
GetPromptResponse(obj, name) ==
    IF name # "summarize_todos"
    THEN Error("GetPrompt", "Unknown prompt")
    ELSE [op |-> "GetPrompt", state |-> "result", text |-> "",
          contents |-> <<LeadingInstruction>> \o EmbeddedNotes(obj)
                          \o <<TrailingInstruction>>]

GetPrompt(name) ==
    /\ reply' = GetPromptResponse(todos, name)
    /\ UNCHANGED <<todos, file, inflight, last>>

----------------------------------------------------------------------------
\* Settling of writes

Without(ws, i) == SubSeq(ws, 1, i - 1) \o SubSeq(ws, i + 1, Len(ws))

\* What a handler's caller gets once the awaited write has settled; the
\* write loadTodos issued has no one waiting for it.
Settle(w, ok) ==
    /\ reply' = IF ~w.newest THEN reply
                ELSE IF ok THEN Result(w.by, w.text)
                ELSE Error(w.by, "write failed")
    /\ last' = IF ~w.newest THEN last
               ELSE [op |-> w.by, status |-> IF ok THEN "returned" ELSE "failed"]

\* WriteDone of a handler that updated a copy of the collection and assigns
\* it to todos once its write has settled.
WriteDoneThenAssign(i) ==
    /\ i \in 1..Len(inflight)
    /\ \/ file' = inflight[i].data
       \/ inflight[i].overlap /\ file' = Garbage
    /\ inflight' = Without(inflight, i)
    /\ Settle(inflight[i], TRUE)
    /\ todos' = Parse(inflight[i].data)

\* A write completes.  Writes to one file that were in flight together are
\* not ordered, and their bytes may interleave (fs.promises.writeFile is
\* documented as unsafe to call again on a file before the earlier call has
\* settled).
WriteDone(i) ==
    /\ i \in 1..Len(inflight)
    /\ \/ file' = inflight[i].data
       \/ inflight[i].overlap /\ file' = Garbage
    /\ inflight' = Without(inflight, i)
    /\ Settle(inflight[i], TRUE)
    /\ UNCHANGED todos

\* A write fails: before the file is opened, or after it was truncated.
\* Spec takes every write to succeed; SpecFailing does not.
WriteFails(i) ==
    /\ i \in 1..Len(inflight)
    /\ file' \in {file, Garbage}
    /\ inflight' = Without(inflight, i)
    /\ Settle(inflight[i], FALSE)
    /\ UNCHANGED todos

----------------------------------------------------------------------------
\* Requests are delivered one at a time: the next one is handled once the
\* handler of the one before has answered.

CreateTodo ==
    /\ Awaiting = 0
    /\ \E a \in CreateArgs : create_todo(a.title, a.content)

MarkTodoDone ==
    /\ Awaiting = 0
    /\ \E id \in RequestIds, d \in BoolArgs : mark_todo_done(id, d)

DeleteTodo ==
    /\ Awaiting = 0
    /\ \E id \in RequestIds : delete_todo(id)

Read ==
    /\ Awaiting = 0
    /\ \E uri \in RequestUris : ReadResource(uri)

List ==
    /\ Awaiting = 0
    /\ ListResources

GetAllTodos ==
    /\ Awaiting = 0
    /\ get_all_todos

Prompt ==
    /\ Awaiting = 0
    /\ \E name \in PromptNames : GetPrompt(name)

Written == \E i \in 1..Len(inflight) : WriteDone(i)

Next ==
    \/ CreateTodo
    \/ MarkTodoDone
    \/ DeleteTodo
    \/ Read
    \/ List
    \/ GetAllTodos
    \/ Prompt
    \/ Written

Spec == Init /\ [][Next]_vars

\* The server started on a file that is absent, is not JSON, or holds a
\* collection whose keys are "1".."N".
Contiguous(obj) == KeySet(obj) = {ToDecimal(i) : i \in 1..Len(obj)}

InitContiguous == Init /\ Contiguous(todos)

SpecContiguous == InitContiguous /\ [][Next]_vars

----------------------------------------------------------------------------
\* The specifications below take fewer calls than Spec: creates with a title
\* or with an empty one, and marks and deletes of "1", which is a key as soon
\* as a create has passed and no key before.
FewCreateArgs ==
    {a \in CreateArgs : a.title \in {"a", ""} /\ a.content = "x"}

FewIds == {"1"}

FewBoolArgs == {b \in BoolArgs : b.given}

\* They start on the empty collection: read from the file, or fallen back to
\* with the write of loadTodos pending.
InitEmpty == Init /\ file \in {Absent, Stringify(<<>>)}

----------------------------------------------------------------------------
\* Writes may fail.  The write a handler awaits rejects, saveTodos rejects
\* with it and the handler throws; the write loadTodos left behind is taken
\* to succeed.

WriteFailed ==
    \E i \in 1..Len(inflight) :
        /\ inflight[i].by # "loadTodos"
        /\ WriteFails(i)

CreateCall ==
    /\ Awaiting = 0
    /\ \E a \in FewCreateArgs : create_todo(a.title, a.content)

MarkCall ==
    /\ Awaiting = 0
    /\ \E id \in FewIds, d \in FewBoolArgs : mark_todo_done(id, d)

DeleteCall ==
    /\ Awaiting = 0
    /\ \E id \in FewIds : delete_todo(id)

NextFailing ==
    \/ CreateCall
    \/ MarkCall
    \/ DeleteCall
    \/ Written
    \/ WriteFailed

SpecFailing == InitEmpty /\ [][NextFailing]_vars

----------------------------------------------------------------------------
\* Tool calls handled as they arrive: a handler starts while the writes of
\* earlier ones are still pending.  Each handler runs from its first
\* statement to its `await saveTodos()` in one step, for nothing before that
\* await yields; what follows the await is the answer.

ConcurrentCreate ==
    /\ Awaiting < MaxPending
    /\ \E a \in FewCreateArgs : create_todo(a.title, a.content)

ConcurrentMark ==
    /\ Awaiting < MaxPending
    /\ \E id \in FewIds, d \in FewBoolArgs :
          mark_todo_done(id, d)

ConcurrentDelete ==
    /\ Awaiting < MaxPending
    /\ \E id \in FewIds : delete_todo(id)

NextConcurrent ==
    \/ ConcurrentCreate
    \/ ConcurrentMark
    \/ ConcurrentDelete
    \/ Written

SpecConcurrent == InitEmpty /\ [][NextConcurrent]_vars

----------------------------------------------------------------------------
\* Vocabulary of the properties

\* A tool call passed its checks in this step: it changed the collection,
\* issued its write and now awaits it.
Accepted(op) ==
    /\ reply'.op = op
    /\ reply'.state = "awaiting"
    /\ Len(inflight') = Len(inflight) + 1

\* The answer the handler accepted in this step will give.
Confirmation == inflight'[Len(inflight')].text

\* The todos of a collection, in order, without their keys.
Todos(obj) == [i \in 1..Len(obj) |-> obj[i].todo]

\* "1", "2", ..., "n"
Numbered(n) == [i \in 1..n |-> ToDecimal(i)]

\* The numerically greatest key, 0 for the empty collection.
MaxKey(obj) ==
    IF obj = <<>> THEN 0
    ELSE CHOOSE m \in {Number(k) : k \in KeySet(obj)} :
            \A k \in KeySet(obj) : Number(k) <= m

\* The file holds exactly the collection obj.
Holds(f, obj) == Readable(f) /\ Parse(f) = obj

----------------------------------------------------------------------------
\* C1: after a delete_todo that passed its check, the keys of the collection
\* are "1".."N" and the todos are those of before, in the same order and
\* with the same title, content and done, without the one that was deleted.
C1_DeleteRenumbers ==
    [][Accepted("delete_todo") =>
          LET text == Confirmation
          IN \A id \in RequestIds :
                 text = "Deleted todo " \o String(id)
                            \o " and reindexed remaining todos" =>
                     /\ Keys(todos') = Numbered(Len(todos'))
                     /\ Todos(todos') =
                           Todos(SelectSeq(todos, LAMBDA e : e.key # String(id)))]_vars

\* A delete of "1" has been answered and left two different todos, both of
\* which had another key before.
C1_Witness ==
    /\ reply = Result("delete_todo", "Deleted todo 1 and reindexed remaining todos")
    /\ Len(todos) = 2
    /\ todos[1].todo # todos[2].todo

----------------------------------------------------------------------------
----------------------------------------------------------------------------
\* C3 (as claimed): once the tool call that last changed the collection has
\* answered with success, the file holds the collection in memory.
C3_FileHoldsCollection ==
    last.status = "returned" => Holds(file, todos)

----------------------------------------------------------------------------
\* C4: right after a create_todo with a title and a content that are text,
\* ReadResource of todo:///<the id it answers with> succeeds with that
\* content as its text and done false.
C4_CreateThenRead ==
    [][Accepted("create_todo") =>
          \A a \in CreateArgs :
              (/\ a.title \notin {"", Undefined}
               /\ a.content \notin {"", Undefined}
               /\ create_todo(a.title, a.content)) =>
                  \E id \in RequestIds \ {Undefined} :
                      /\ Confirmation =
                            "Created todo " \o id \o ": " \o a.title
                      /\ ReadResourceResponse(todos', UriOf(id)) =
                            [op |-> "ReadResource", state |-> "result",
                             text |-> "",
                             contents |-> <<[uri |-> UriOf(id),
                                             mimeType |-> "text/plain",
                                             text |-> a.content,
                                             done |-> "false"]>>]]_vars

\* The call that last changed the collection is a create with the content
\* "x", and the entry it added has since been read.
C4_Witness ==
    /\ last = [op |-> "create_todo", status |-> "returned"]
    /\ reply.op = "ReadResource"
    /\ reply.state = "result"
    /\ reply.contents[1].uri = UriOf(todos[Len(todos)].key)
    /\ reply.contents[1].text = "x"
    /\ reply.contents[1].done = "false"

----------------------------------------------------------------------------
\* C5: a create_todo whose title or content is the empty string answers
\* with the error "Title and content are required", changes neither the
\* collection nor the file and issues no write.
C5_EmptyArgumentRejected ==
    [][reply'.op = "create_todo" =>
          \A a \in CreateArgs :
              ((a.title = "" \/ a.content = "")
                  /\ create_todo(a.title, a.content)) =>
                  /\ reply' = Error("create_todo", "Title and content are required")
                  /\ UNCHANGED <<todos, file, inflight>>]_vars

\* A create has been refused while the collection held a todo and the file
\* held the collection.
C5_Witness ==
    /\ reply = Error("create_todo", "Title and content are required")
    /\ todos # <<>>
    /\ Holds(file, todos)

----------------------------------------------------------------------------
\* C6 (as claimed): a create_todo that omits the title, the content or both
\* answers with the error "Title and content are required" and creates no
\* todo.
C6_OmittedArgumentRejected ==
    [][reply'.op = "create_todo" =>
          \A a \in CreateArgs :
              ((a.title = Undefined \/ a.content = Undefined)
                  /\ create_todo(a.title, a.content)) =>
                  /\ reply' = Error("create_todo", "Title and content are required")
                  /\ UNCHANGED todos]_vars

----------------------------------------------------------------------------
\* The error a handler gives for an identifier it does not find.
NotFound(op, id) ==
    Error(op, (IF op = "ReadResource" THEN "Note " ELSE "Todo ")
                \o id \o " not found")

\* C7 (as claimed): for an identifier that is no key of the collection,
\* ReadResource, mark_todo_done and delete_todo each answer with a not-found
\* error that carries the identifier, change neither the collection nor the
\* file and issue no write.
C7_UnknownIdRejected ==
    [][\A id \in RequestIds :
          ~HasOwn(todos, String(id)) =>
              /\ (\E d \in BoolArgs : mark_todo_done(id, d)) =>
                    /\ reply' = NotFound("mark_todo_done", String(id))
                    /\ UNCHANGED <<todos, file, inflight>>
              /\ delete_todo(id) =>
                    /\ reply' = NotFound("delete_todo", String(id))
                    /\ UNCHANGED <<todos, file, inflight>>
              /\ ReadResource(UriOf(String(id))) =>
                    /\ reply' = NotFound("ReadResource", String(id))
                    /\ UNCHANGED <<todos, file, inflight>>]_vars

----------------------------------------------------------------------------
\* The confirmations of mark_todo_done, by identifier and flag.
Confirmations ==
    [id \in RequestIds, done \in BOOLEAN |-> Marked(String(id), done)]

\* C8: a mark_todo_done that passed its check leaves the keys, their order
\* and every title and content as they were, and every done flag too, but
\* that of the entry named, which becomes the flag given.
C8_MarkTouchesOnlyDone ==
    [][Accepted("mark_todo_done") =>
          LET text == Confirmation
          IN \A id \in RequestIds, done \in BOOLEAN :
                 text = Confirmations[id, done] =>
                     /\ Keys(todos') = Keys(todos)
                     /\ \A i \in 1..Len(todos) :
                           /\ todos'[i].todo.title = todos[i].todo.title
                           /\ todos'[i].todo.content = todos[i].todo.content
                           /\ todos'[i].todo.done =
                                 IF todos[i].key = String(id) THEN done
                                 ELSE todos[i].todo.done]_vars

\* "2" has been marked done, and "1" and "3" are not.
C8_Witness ==
    /\ reply = Result("mark_todo_done", "Marked todo 2 as done")
    /\ Len(todos) = 3
    /\ todos[2].todo.done
    /\ ~todos[1].todo.done
    /\ ~todos[3].todo.done

----------------------------------------------------------------------------
\* The file is a serialized collection: a JSON object each of whose members
\* is a record with a title, a content and a done flag.
SerializedCollection(f) ==
    /\ Readable(f)
    /\ \A i \in 1..Len(f.members) : f.members[i].todo.title # Undefined

\* C9 (as claimed): before the first request, either the file is a
\* serialized collection and the collection in memory is the one it holds,
\* or it is not, the collection in memory is empty and the write of the
\* empty collection is under way.
C9_LoadFallsBackOnMalformed ==
    reply = NoReply =>
        IF SerializedCollection(file)
        THEN todos = Parse(file) /\ inflight = <<>>
        ELSE /\ todos = <<>>
             /\ Len(inflight) = 1
             /\ inflight[1].by = "loadTodos"
             /\ inflight[1].data = Stringify(<<>>)

----------------------------------------------------------------------------
\* Text that is not empty.
NonEmptyText(v) == v \notin {"", Undefined}

\* C10 (as claimed): every entry of the collection has a title and a content
\* that are non-empty text.
C10_TitleAndContentNonEmpty ==
    \A i \in 1..Len(todos) :
        /\ NonEmptyText(todos[i].todo.title)
        /\ NonEmptyText(todos[i].todo.content)

----------------------------------------------------------------------------
\* The requests that only read.
ReadOps == {"ListResources", "ReadResource", "get_all_todos", "GetPrompt"}

\* C11: a step in which ListResources, ReadResource, get_all_todos or
\* GetPrompt answers, with a result or with an error, leaves the collection
\* and the file as they were and issues no write.
C11_ReadsChangeNothing ==
    [][(reply' # reply /\ reply'.op \in ReadOps) =>
          UNCHANGED <<todos, file, inflight>>]_vars

\* A read has failed after a tool call changed the collection, and the file
\* still holds the collection of two todos.
C11_Witness ==
    /\ reply = NotFound("ReadResource", "3")
    /\ last.status = "returned"
    /\ Len(todos) = 2
    /\ Holds(file, todos)

----------------------------------------------------------------------------
\* "<id>: <title> - Done" or "<id>: <title> - Not Done"
Line(id, title, done) ==
    id \o ": " \o title \o " - " \o (IF done THEN "Done" ELSE "Not Done")

\* The lines of a collection, one for each todo, in its order.
Lines(obj) ==
    [i \in 1..Len(obj) |->
        Line(obj[i].key, String(obj[i].todo.title), obj[i].todo.done)]

\* A block of text made of lines, each ended by a newline.
RECURSIVE Text(_)
Text(lines) ==
    IF lines = <<>> THEN ""
    ELSE Head(lines) \o "\n" \o Text(Tail(lines))

\* C12: get_all_todos answers "No todos available" exactly when the
\* collection is empty, and otherwise the lines of the collection, one for
\* each todo in its order; and in the collection a mark_todo_done(id, true)
\* that passed its check leaves, the line get_all_todos gives for id ends in
\* "Done".
C12_GetAllTodosLines ==
    [][/\ (reply'.op = "get_all_todos" /\ reply' # reply) =>
              /\ reply'.state = "result"
              /\ (reply'.text = "No todos available") <=> (todos = <<>>)
              /\ todos # <<>> => reply'.text = Text(Lines(todos))
       /\ Accepted("mark_todo_done") =>
              \A id \in RequestIds :
                  Confirmation = Marked(String(id), TRUE) =>
                      \A i \in 1..Len(todos') :
                          todos'[i].key = String(id) =>
                              /\ GetAllTodosResponse(todos').text =
                                    Text(Lines(todos'))
                              /\ Lines(todos')[i] =
                                    Line(String(id),
                                         String(todos'[i].todo.title), TRUE)]_vars

\* After "2" was marked done, get_all_todos has answered with a Not Done
\* line for "1" and a Done line for "2".
C12_Witness ==
    /\ last = [op |-> "mark_todo_done", status |-> "returned"]
    /\ reply = Result("get_all_todos", "1: a - Not Done\n2: a - Done\n")

----------------------------------------------------------------------------
\* C13: for a collection of N todos ListResources answers with N
\* descriptors, and GetPrompt of summarize_todos with N + 2 messages: the
\* leading instruction, then for each todo, in the order of the collection
\* and of the descriptors, a resource with the uri todo:///<id>, the content
\* as its text and the done flag, then the trailing instruction.
C13_DescriptorsAndMessages ==
    LET N == Len(todos)
        list == ListResourcesResponse(todos).contents
        prompt == GetPromptResponse(todos, "summarize_todos")
        messages == prompt.contents
    IN /\ reply.op = "ListResources" => reply.contents = list
       /\ (reply.op = "GetPrompt" /\ reply.state = "result") => reply = prompt
       /\ Len(list) = N
       /\ prompt.state = "result"
       /\ Len(messages) = N + 2
       /\ messages[1] = LeadingInstruction
       /\ messages[N + 2] = TrailingInstruction
       /\ \A i \in 1..N :
             /\ list[i].uri = UriOf(todos[i].key)
             /\ messages[i + 1].role = "user"
             /\ messages[i + 1].content.type = "resource"
             /\ messages[i + 1].content.resource.uri = list[i].uri
             /\ messages[i + 1].content.resource.text = todos[i].todo.content
             /\ messages[i + 1].content.resource.done =
                    JsonBool(todos[i].todo.done)

\* The prompt has been answered for a collection of two todos that differ,
\* with four messages.
C13_Witness ==
    /\ reply.op = "GetPrompt"
    /\ reply.state = "result"
    /\ Len(reply.contents) = 4
    /\ Len(todos) = 2
    /\ todos[1].todo # todos[2].todo

----------------------------------------------------------------------------
\* C14: when the server starts with a collection that is empty or has the
\* keys "1".."N", the keys are "1".."K" for the current size K in every
\* state; and the key a create_todo assigns is the numeral of max + 1 and of
\* count + 1 alike, and no key of the collection before.
C14_KeysStayContiguous ==
    /\ Contiguous(todos)
    /\ [][/\ Contiguous(todos')
          /\ Accepted("create_todo") =>
                /\ KeySet(todos') \ KeySet(todos) = {NextIdByCount(todos)}
                /\ NextIdByCount(todos) = ToDecimal(MaxKey(todos) + 1)
                /\ ~HasOwn(todos, NextIdByCount(todos))]_vars

\* A create has been answered with the key "3" in a collection that started
\* contiguous and now has three entries.
C14_Witness ==
    /\ reply = Result("create_todo", "Created todo 3: a")
    /\ Len(todos) = 3
    /\ Contiguous(todos)

----------------------------------------------------------------------------
\* What a tool call run on its own makes of a collection.
CreateEffect(obj, a) ==
    IF Required(String(a.title), String(a.content)) THEN obj
    ELSE Insert(obj, NextId(obj), String(a.title), String(a.content))

MarkEffect(obj, id, d) ==
    IF Falsy(obj, String(id)) THEN obj
    ELSE SetDone(obj, String(id), Boolean(d))

DeleteEffect(obj, id) ==
    IF Falsy(obj, String(id)) THEN obj
    ELSE Reindex(Delete(obj, String(id)))

\* C15: with handlers starting while the writes of earlier ones are pending,
\* the collection changes only in a step in which a handler passes its check
\* and issues its write, never when a write settles, in whatever order
\* writes settle; in that step the collection becomes what the call, run on
\* its own, makes of the collection the handlers started before it have
\* left, and the write then awaited carries the collection so updated.  The
\* collection is thus the one the calls give when run one after another in
\* the order they started.
C15_StartOrderDecides ==
    [][/\ todos' # todos => Len(inflight') > Len(inflight)
       /\ Len(inflight') > Len(inflight) =>
             /\ inflight'[Len(inflight')].data = Stringify(todos')
             /\ SubSeq(inflight', 1, Len(inflight)) = Overlapped(inflight)
             /\ reply'.op = "create_todo" =>
                   \A a \in FewCreateArgs :
                       create_todo(a.title, a.content) =>
                           todos' = CreateEffect(todos, a)
             /\ reply'.op = "mark_todo_done" =>
                   \A id \in FewIds, d \in FewBoolArgs :
                       mark_todo_done(id, d) => todos' = MarkEffect(todos, id, d)
             /\ reply'.op = "delete_todo" =>
                   \A id \in FewIds :
                       delete_todo(id) => todos' = DeleteEffect(todos, id)]_vars

\* A mark of "1" started while the write of the create of "1" was pending;
\* that write has settled since, the mark's has not, and the collection
\* holds the todo as done while the file holds it as not done.
C15_Witness ==
    /\ Len(inflight) = 1
    /\ inflight[1].text = "Marked todo 1 as done"
    /\ inflight[1].overlap
    /\ Len(todos) = 1
    /\ todos[1].todo.done
    /\ Holds(file, <<[key |-> "1",
                      todo |-> [title |-> "a", content |-> "x", done |-> FALSE]]>>)

----------------------------------------------------------------------------
\* The write the handler awaits fails in this step.
SaveFails == last.status = "awaiting" /\ last'.status = "failed"

\* The write the handler awaits succeeds in this step, and no other write
\* was in flight with it.
SaveSucceeds ==
    /\ last.status = "awaiting"
    /\ last'.status = "returned"
    /\ \A i \in 1..Len(inflight) : ~inflight[i].overlap

\* C16 (as claimed): when the write a tool handler awaits fails, the call
\* answers with an error and not with its confirmation, the collection keeps
\* the update the handler made before the write, and the file keeps the
\* content it had; and when a write a handler awaits succeeds, the file
\* holds the collection, updates retained from failed calls included.
C16_FailedWriteKeepsFile ==
    [][/\ SaveFails =>
             /\ reply'.op = last.op
             /\ reply'.state = "error"
             /\ \A i \in 1..Len(inflight) : reply'.text # inflight[i].text
             /\ todos' = todos
             /\ \E i \in 1..Len(inflight) : inflight[i].data = Stringify(todos)
             /\ file' = file
       /\ SaveSucceeds => Holds(file', todos')]_vars

====
